---- MODULE Spec2Model ----
(***************************************************************************)
(* Vehicle dynamics of carsim (src/main.py): class Car with its steering   *)
(* filter, engine torque curve, axle loads, tire forces, Euler integrator  *)
(* and tire-track ring buffer.                                             *)
(*                                                                         *)
(* The program computes in floating point.  The model computes in fixed    *)
(* point, with truncation toward zero, in these units:                     *)
(*   dt                       microseconds                                 *)
(*   steer, steer_angle       1e-6 (steer units, radians)                  *)
(*   heading, slip angles     1e-3 rad                                     *)
(*   yaw_rate                 1e-3 rad/s                                   *)
(*   position                 mm                                           *)
(*   velocity, abs_vel        mm/s                                         *)
(*   accel                    mm/s^2                                       *)
(*   forces, axle loads       mN                                           *)
(*   engine_torque            mNm                                          *)
(*   rpm                      1 rpm                                        *)
(* Every intermediate product is kept below 2^31.                          *)
(***************************************************************************)
EXTENDS Integers, Sequences, FiniteSets

VARIABLES
    inputs,             \* Car.inputs: [left, right, throttle, brake, ebrake]
    heading,            \* Car.heading
    position,           \* Car.position  [x, y]
    velocity,           \* Car.velocity  [x, y]   (world)
    velocity_c,         \* Car.velocity_c         (car frame)
    accel,              \* Car.accel              (world)
    accel_c,            \* Car.accel_c            (car frame)
    abs_vel,            \* Car.abs_vel
    yaw_rate,           \* Car.yaw_rate
    steer,              \* Car.steer
    steer_angle,        \* Car.steer_angle
    smooth_steer,       \* Car.smooth_steer
    safe_steer,         \* Car.safe_steer
    current_gear_index, \* Car.current_gear_index (0-based)
    rpm,                \* Car.rpm
    engine_torque,      \* Car.engine_torque
    last_tire_index,    \* Car.last_tire_index
    tire_tracks,        \* Car.tire_tracks: 0..max_tire_length-1 -> point or None
    axle_weight_front,  \* local of update_physics, as last computed
    axle_weight_rear,   \* local of update_physics, as last computed
    speed_integrated,   \* self.abs_vel as assigned at line 429, before the low-speed stop
    written,            \* history: every point stored in tire_tracks, in order
    last_dt,            \* the dt argument of the last update
    ticks               \* number of update calls so far

vars == << inputs, heading, position, velocity, velocity_c, accel, accel_c,
           abs_vel, yaw_rate, steer, steer_angle, smooth_steer, safe_steer,
           current_gear_index, rpm, engine_torque, last_tire_index, tire_tracks,
           axle_weight_front, axle_weight_rear, speed_integrated, written,
           last_dt, ticks >>

---------------------------------------------------------------------------
(* Fixed-point arithmetic                                                  *)

Abs(a) == IF a >= 0 THEN a ELSE -a

Min(a, b) == IF a <= b THEN a ELSE b

Max(a, b) == IF a >= b THEN a ELSE b

\* a / b truncated toward zero (b > 0): symmetric in the sign of a, as float division is
Div(a, b) == IF a >= 0 THEN a \div b ELSE -((-a) \div b)

Rem(a, b) == a - b * Div(a, b)

\* a * b / 1000 without forming a * b
MulMilli(a, b) == a * Div(b, 1000) + Div(a * Rem(b, 1000), 1000)

\* a * dt with dt in microseconds: a * dt / 1000000
TimesDt(a, dt) == Div(a * Div(dt, 1000) + Div(a * Rem(dt, 1000), 1000), 1000)

RECURSIVE SqrtIter(_, _, _)
SqrtIter(n, lo, hi) ==
    IF lo >= hi THEN lo
    ELSE LET mid == (lo + hi + 1) \div 2
         IN  IF mid * mid <= n THEN SqrtIter(n, mid, hi) ELSE SqrtIter(n, lo, mid - 1)

\* floor of the square root, 0 <= n < 2^31
Isqrt(n) == SqrtIter(n, 0, 46340)

\* pygame.Vector2.length()
Length(v) ==
    IF Max(Abs(v.x), Abs(v.y)) <= 30000
    THEN Isqrt(v.x * v.x + v.y * v.y)
    ELSE 16 * Isqrt(Div(v.x, 16) * Div(v.x, 16) + Div(v.y, 16) * Div(v.y, 16))

\* 1000 * sin(x / 1000) for 0 <= x <= 3142 (Bhaskara's rational approximation)
SinHalfTurn(x) ==
    LET p == (x * (3142 - x)) \div 10
    IN  (4000 * p) \div (1234020 - p)

SinTurn(r) == IF r <= 3142 THEN SinHalfTurn(r) ELSE -SinHalfTurn(r - 3142)

\* math.sin, math.cos: argument in 1e-3 rad, value in 1e-3
Sin(h) == IF h >= 0 THEN SinTurn(h % 6283) ELSE -SinTurn((-h) % 6283)

Cos(h) == SinTurn((Abs(h) + 1571) % 6283)

\* 1000 * atan(z / 1000) for 0 <= z <= 1000
AtanUnit(z) == Div(z * (785 + Div(273 * (1000 - z), 1000)), 1000)

\* math.atan2(y, x) for x >= 0 (every call passes abs(velocity_c.x)); value in 1e-3 rad
Atan2(y, x) ==
    IF x = 0
    THEN (IF y > 0 THEN 1571 ELSE IF y < 0 THEN -1571 ELSE 0)
    ELSE LET ay == Abs(y)
             a  == IF ay <= x THEN AtanUnit(Div(ay * 1000, x))
                   ELSE 1571 - AtanUnit(Div(x * 1000, ay))
         IN  IF y >= 0 THEN a ELSE -a

\* pygame.Vector2.rotate_rad
RotateRad(v, h) ==
    [x |-> Div(v.x * Cos(h) - v.y * Sin(h), 1000),
     y |-> Div(v.x * Sin(h) + v.y * Cos(h), 1000)]

---------------------------------------------------------------------------
(* Module-level helpers                                                    *)

clamp(x, minval, maxval) == Min(maxval, Max(minval, x))

\* sign(x): +1 for x >= 0 (zero included), -1 otherwise
sign(x) == IF x >= 0 THEN 1 ELSE -1

\* a * 1000 / b without forming a * 1000 (b > 0)
DivMilli(a, b) == Div(a, b) * 1000 + Div(Rem(a, b) * 1000, b)

---------------------------------------------------------------------------
(* Car.__init__: the configuration                                         *)

gravity == 9800

mass == 900

intertia_scale == 1000

half_width == 800

cg_to_front_axle == 1250

cg_to_rear_axle == 1250

cg_to_height == 550

wheel_radius == 300

tire_grip == 2200

lock_grip == 700

gear_ratios == << 4230, 2520, 1660, 1230, 1000, 830 >>

\* (rpm, Nm) breakpoints
torque_curve ==
    << << 800, 200 >>, << 2000, 280 >>, << 3000, 340 >>, << 4000, 355 >>,
       << 5000, 360 >>, << 6000, 355 >>, << 7000, 340 >>, << 8000, 300 >> >>

diff_ratio == 3500

transmission_eff == 850

min_rpm == 800

brake_force == 15000000

ebrake_force == Div(brake_force * 10, 25)

weight_transfer == 200

max_steer == 600

corner_stiffness_front == 5000

corner_stiffness_rear == 5200

air_ressist == 300

roll_ressist == 8000

inertia == Div(mass * intertia_scale, 1000)

wheel_base == cg_to_front_axle + cg_to_rear_axle

axle_weight_ratio_rear == Div(cg_to_rear_axle * 1000, wheel_base)

axle_weight_ratio_front == Div(cg_to_front_axle * 1000, wheel_base)

\* Capacity of the tire-track ring in the model (the program allocates 100000 slots)
MaxTireLength == 6

max_tire_length == MaxTireLength

None == << >>

---------------------------------------------------------------------------
(* Steering filter                                                         *)

\* apply_smooth_steer without the clamp to [-1, 1]
apply_smooth_steer_unclamped(st, steer_input, dt) ==
    IF steer_input # 0
    THEN st + steer_input * dt * 2
    ELSE IF st > 0 THEN Max(st - dt, 0)
         ELSE IF st < 0 THEN Min(st + dt, 0)
         ELSE 0

\* apply_smooth_steer whose decay may pass zero
apply_smooth_steer_overshoot(st, steer_input, dt) ==
    IF steer_input # 0
    THEN clamp(st + steer_input * dt * 2, -1000000, 1000000)
    ELSE IF st > 0 THEN st - dt
         ELSE IF st < 0 THEN st + dt
         ELSE 0

apply_smooth_steer(st, steer_input, dt) ==
    IF steer_input # 0
    THEN clamp(st + steer_input * dt * 2, -1000000, 1000000)
    ELSE IF st > 0 THEN Max(st - dt, 0)
         ELSE IF st < 0 THEN Min(st + dt, 0)
         ELSE 0

apply_safe_steer(steer_input, speed) ==
    LET avel == Min(speed, 250000)
    IN  Div(steer_input * (1000 - Div(avel, 280)), 1000)

---------------------------------------------------------------------------
(* Engine model                                                            *)

RECURSIVE TorqueFromOpen(_, _)
\* TorqueFrom with r1 < rpm < r2 as the segment test
TorqueFromOpen(i, r) ==
    IF i > Len(torque_curve) - 1 THEN 0
    ELSE LET r1 == torque_curve[i][1]
             t1 == torque_curve[i][2]
             r2 == torque_curve[i + 1][1]
             t2 == torque_curve[i + 1][2]
         IN  IF r1 < r /\ r < r2
             THEN t1 * 1000 + Div((t2 - t1) * 1000 * (r - r1), r2 - r1)
             ELSE TorqueFromOpen(i + 1, r)

RECURSIVE TorqueFrom(_, _)
\* the loop of get_engine_torque from segment i on (1-based); value in mNm
TorqueFrom(i, r) ==
    IF i > Len(torque_curve) - 1 THEN 0
    ELSE LET r1 == torque_curve[i][1]
             t1 == torque_curve[i][2]
             r2 == torque_curve[i + 1][1]
             t2 == torque_curve[i + 1][2]
         IN  IF r1 <= r /\ r <= r2
             THEN t1 * 1000 + Div((t2 - t1) * 1000 * (r - r1), r2 - r1)
             ELSE TorqueFrom(i + 1, r)

\* get_engine_torque holding the last breakpoint's torque above the curve
get_engine_torque_held(r) ==
    IF r > torque_curve[Len(torque_curve)][1]
    THEN torque_curve[Len(torque_curve)][2] * 1000
    ELSE TorqueFrom(1, r)

\* get_engine_torque with open segments: no torque at a breakpoint
get_engine_torque_open(r) == TorqueFromOpen(1, r)

get_engine_torque(r) == TorqueFrom(1, r)

---------------------------------------------------------------------------
(* Car.update_physics                                                      *)

\* mass * ratio * gravity, the load on an axle of the car standing still
StaticLoad(ratio) == Div(mass * ratio, 1000) * gravity

\* weight_transfer * accel_c.x * cg_to_height / wheel_base
LoadTransfer(acx) == Div(Div(weight_transfer * acx, 1000) * cg_to_height, wheel_base)

AxleWeightFront(acx) == StaticLoad(axle_weight_ratio_front) - LoadTransfer(acx)

AxleWeightRear(acx) == StaticLoad(axle_weight_ratio_rear) - LoadTransfer(acx)

\* engine_torque * gear_ratio * diff_ratio * transmission_eff / wheel_radius
DriveForce(torque, gear_ratio) ==
    DivMilli(MulMilli(transmission_eff, MulMilli(diff_ratio, MulMilli(gear_ratio, torque))),
             wheel_radius)

\* -roll_ressist * v - air_ressist * v * abs(v)
DragForce(v) == - MulMilli(roll_ressist, v) - MulMilli(air_ressist, MulMilli(v, Abs(v)))

\* EngineSpeed without the idle floor of line 458
EngineSpeedNoFloor(wheel_speed, gear_ratio) ==
    Div(MulMilli(diff_ratio, MulMilli(gear_ratio, Abs(wheel_speed))) * 60,
        Div(2 * 3142 * wheel_radius, 1000))

\* abs(wheel_speed) * gear_ratio * diff_ratio * 60 / (2 * pi * wheel_radius), then the idle floor
EngineSpeed(wheel_speed, gear_ratio) ==
    Max(Div(MulMilli(diff_ratio, MulMilli(gear_ratio, Abs(wheel_speed))) * 60,
            Div(2 * 3142 * wheel_radius, 1000)),
        800)

\* LowSpeedStop with the threshold a factor of ten too small
LowSpeedStopTenth(speed, throttle) == speed < 50 /\ throttle = 0

\* abs(self.abs_vel) < 0.5 and not throttle
LowSpeedStop(speed, throttle) == speed < 500 /\ throttle = 0

\* Everything one call of update_physics computes, from the state before the call,
\* the inputs and gear set by update, and the new steer angle sa (1e-6 rad).
Physics(dt, inp, gear_index, sa) ==
    LET sn == Sin(heading)
        cs == Cos(heading)
        vc == [x |-> Div(cs * velocity.x + sn * velocity.y, 1000),
               y |-> Div(cs * velocity.y - sn * velocity.x, 1000)]
        awf == AxleWeightFront(accel_c.x)
        awr == AxleWeightRear(accel_c.x)
        yaw_speed_front == Div(cg_to_front_axle * yaw_rate, 1000)
        yaw_speed_rear == - Div(cg_to_rear_axle * yaw_rate, 1000)
        angle == Div(sa, 1000)
        slip_angle_front == Atan2(vc.y + yaw_speed_front, Abs(vc.x)) - sign(vc.x) * angle
        slip_angle_rear == Atan2(vc.y + yaw_speed_rear, Abs(vc.x))
        tire_grip_front == tire_grip
        tire_grip_rear == Div(tire_grip * (1000 - inp.ebrake * (1000 - lock_grip)), 1000)
        friction_force_front_cy ==
            MulMilli(clamp(Div(- corner_stiffness_front * slip_angle_front, 1000),
                           - tire_grip_front, tire_grip_front), awf)
        friction_force_rear_cy ==
            MulMilli(clamp(Div(- corner_stiffness_rear * slip_angle_rear, 1000),
                           - tire_grip_rear, tire_grip_rear), awr)
        brake == Min(inp.brake * brake_force + inp.ebrake * ebrake_force, brake_force)
        torque == get_engine_torque(rpm)
        gear_ratio == gear_ratios[gear_index + 1]
        drive_force == DriveForce(torque, gear_ratio)
        throttle == inp.throttle * drive_force
        traction_force_cx == throttle - brake * sign(vc.x)
        traction_force_cy == 0
        total_force_cx == DragForce(vc.x) + traction_force_cx
        total_force_cy == DragForce(vc.y) + traction_force_cy
                          + MulMilli(Cos(angle), friction_force_front_cy)
                          + friction_force_rear_cy
        ac == [x |-> Div(total_force_cx, mass), y |-> Div(total_force_cy, mass)]
        a  == [x |-> Div(cs * ac.x - sn * ac.y, 1000),
               y |-> Div(sn * ac.x + cs * ac.y, 1000)]
        v1 == [x |-> velocity.x + TimesDt(a.x, dt), y |-> velocity.y + TimesDt(a.y, dt)]
        speed1 == Length(v1)
        torque1 == MulMilli(cg_to_front_axle, friction_force_front_cy + traction_force_cy)
                   - MulMilli(cg_to_rear_axle, friction_force_rear_cy)
        stop == LowSpeedStop(speed1, throttle)
        v2 == IF stop THEN [x |-> 0, y |-> 0] ELSE v1
        speed2 == IF stop THEN 0 ELSE speed1
        angular_torque == IF stop THEN 0 ELSE torque1
        yaw1 == IF stop THEN 0 ELSE yaw_rate
        angular_accel == Div(angular_torque, inertia)
        yaw2 == yaw1 + TimesDt(angular_accel, dt)
        heading2 == heading + TimesDt(yaw2, dt)
        pos2 == [x |-> position.x + TimesDt(v2.x, dt), y |-> position.y + TimesDt(v2.y, dt)]
        wheel_speed == vc.x
        slip_ratio == Div((wheel_speed - speed2) * 1000, Max(speed2, 100))
    IN  [velocity_c |-> vc, axle_weight_front |-> awf, axle_weight_rear |-> awr,
         engine_torque |-> torque, throttle |-> throttle,
         accel_c |-> ac, accel |-> a, speed_integrated |-> speed1,
         velocity |-> v2, abs_vel |-> speed2, yaw_rate |-> yaw2,
         heading |-> heading2, position |-> pos2,
         rpm |-> EngineSpeed(wheel_speed, gear_ratio),
         rear_tracks |-> (Abs(slip_ratio) > 10 \/ Abs(slip_angle_rear) > 500),
         front_tracks |-> Abs(slip_angle_front) > 500]

---------------------------------------------------------------------------
(* Tire-track ring buffer                                                  *)

\* The world position of a contact patch at offset (dx, dy) from the centre of gravity
TirePoint(pos, h, dx, dy) ==
    LET r == RotateRad([x |-> dx, y |-> dy], h)
    IN  << pos.x + r.x, pos.y + r.y >>

\* StorePair with the cursor stepped once for the pair
StorePairOneStep(ring, p1, p2) ==
    LET i1 == ring.index
        t1 == [ring.tracks EXCEPT ![i1] = p1]
        i2 == (i1 + 1) % max_tire_length
        t2 == [t1 EXCEPT ![i2] = p2]
    IN  [tracks |-> t2, index |-> i2,
         written |-> Append(Append(ring.written, p1), p2)]

\* The two stores and cursor steps shared by add_front_tire_tracks and
\* add_rear_tire_tracks; ring is [tracks, index, written]
StorePair(ring, p1, p2) ==
    LET i1 == ring.index
        t1 == [ring.tracks EXCEPT ![i1] = p1]
        i2 == (i1 + 1) % max_tire_length
        t2 == [t1 EXCEPT ![i2] = p2]
    IN  [tracks |-> t2, index |-> (i2 + 1) % max_tire_length,
         written |-> Append(Append(ring.written, p1), p2)]

add_front_tire_tracks(ring, pos, h) ==
    StorePair(ring,
              TirePoint(pos, h, cg_to_front_axle, - Div(half_width, 2)),
              TirePoint(pos, h, cg_to_front_axle, Div(half_width, 2)))

add_rear_tire_tracks(ring, pos, h) ==
    StorePair(ring,
              TirePoint(pos, h, - cg_to_rear_axle, - Div(half_width, 2)),
              TirePoint(pos, h, - cg_to_rear_axle, Div(half_width, 2)))

\* The end of update_physics: the rear pair if the rear slips, then the front pair
Recorded(ring0, ph) ==
    LET ring1 == IF ph.rear_tracks THEN add_rear_tire_tracks(ring0, ph.position, ph.heading)
                 ELSE ring0
    IN  IF ph.front_tracks THEN add_front_tire_tracks(ring1, ph.position, ph.heading)
        ELSE ring1

---------------------------------------------------------------------------
(* Car.__init__ and Car.update                                             *)

\* keys is the set of keys held, among "w", "a", "s", "d", "space" and "1" .. "6"
Pressed(keys, k) == IF k \in keys THEN 1 ELSE 0

\* The gear keys are tested in order 1..6, so the highest pressed one is kept
SelectGear(keys, gear) ==
    IF "6" \in keys THEN 5
    ELSE IF "5" \in keys THEN 4
    ELSE IF "4" \in keys THEN 3
    ELSE IF "3" \in keys THEN 2
    ELSE IF "2" \in keys THEN 1
    ELSE IF "1" \in keys THEN 0
    ELSE gear

\* The steering stage of update: smoothing, then safe steer; value is the new self.steer
FilterSteer(st, steer_input, dt, speed, smooth, safe) ==
    LET s1 == IF smooth THEN apply_smooth_steer(st, steer_input, dt)
              ELSE steer_input * 1000000
    IN  IF safe THEN apply_safe_steer(s1, speed) ELSE s1

SteerAngle(st) == Div(max_steer * st, 1000)

\* The state after Car(), with the two steering toggles and the engine speed as given
Built(smooth, safe, r) ==
    /\ inputs = [left |-> 0, right |-> 0, throttle |-> 0, brake |-> 0, ebrake |-> 0]
    /\ heading = 0
    /\ position = [x |-> 10000, y |-> 10000]
    /\ velocity = [x |-> 0, y |-> 0]
    /\ velocity_c = [x |-> 0, y |-> 0]
    /\ accel = [x |-> 0, y |-> 0]
    /\ accel_c = [x |-> 0, y |-> 0]
    /\ abs_vel = 0
    /\ yaw_rate = 0
    /\ steer = 0
    /\ steer_angle = 0
    /\ smooth_steer = smooth
    /\ safe_steer = safe
    /\ current_gear_index = 0
    /\ rpm = r
    /\ engine_torque = 0
    /\ last_tire_index = 0
    /\ tire_tracks = [i \in 0 .. max_tire_length - 1 |-> None]
    /\ axle_weight_front = StaticLoad(axle_weight_ratio_front)
    /\ axle_weight_rear = StaticLoad(axle_weight_ratio_rear)
    /\ speed_integrated = 0
    /\ written = << >>
    /\ last_dt = 0
    /\ ticks = 0

\* The state after Car() with the two steering toggles as given
Created(smooth, safe) == Built(smooth, safe, min_rpm)

\* Car.update(dt, keys, game): inputs and gear from the keys, the steering filter,
\* update_physics and its tire-track recording
update(dt, keys) ==
    LET inp == [left |-> Pressed(keys, "a"), right |-> Pressed(keys, "d"),
                throttle |-> Pressed(keys, "w"), brake |-> Pressed(keys, "s"),
                ebrake |-> Pressed(keys, "space")]
        gear == SelectGear(keys, current_gear_index)
        st == FilterSteer(steer, inp.right - inp.left, dt, abs_vel, smooth_steer, safe_steer)
        sa == SteerAngle(st)
        ring0 == [tracks |-> tire_tracks, index |-> last_tire_index, written |-> written]
    IN  \E ph \in {Physics(dt, inp, gear, sa)} :
        \E ring \in {Recorded(ring0, ph)} :
            /\ inputs' = inp
            /\ current_gear_index' = gear
            /\ steer' = st
            /\ steer_angle' = sa
            /\ velocity_c' = ph.velocity_c
            /\ axle_weight_front' = ph.axle_weight_front
            /\ axle_weight_rear' = ph.axle_weight_rear
            /\ engine_torque' = ph.engine_torque
            /\ accel_c' = ph.accel_c
            /\ accel' = ph.accel
            /\ speed_integrated' = ph.speed_integrated
            /\ velocity' = ph.velocity
            /\ abs_vel' = ph.abs_vel
            /\ yaw_rate' = ph.yaw_rate
            /\ heading' = ph.heading
            /\ position' = ph.position
            /\ rpm' = ph.rpm
            /\ tire_tracks' = ring.tracks
            /\ last_tire_index' = ring.index
            /\ written' = ring.written
            /\ last_dt' = dt
            /\ ticks' = ticks + 1
            /\ UNCHANGED << smooth_steer, safe_steer >>

---------------------------------------------------------------------------
(* Spec: a car as created, driven with throttle, brakes, steering and gear *)
(* keys at a normal (1/60 s) or a slow (100 ms) frame time                 *)

\* Longest run explored by Spec
MaxTicks == 4

DriveDts == {16667, 100000}

DriveKeys == {{}, {"w"}, {"s"}, {"w", "6"}, {"space", "a"}, {"d"}}

Init == Created(TRUE, TRUE)

Tick == ticks < MaxTicks /\ \E dt \in DriveDts, keys \in DriveKeys : update(dt, keys)

Next == Tick

Spec == Init /\ [][Next]_vars

---------------------------------------------------------------------------
(* SpecSteer: left/right steering with either setting of the two toggles,  *)
(* standing and under throttle, at frame times 0, 1/60 s and 0.6 s         *)

\* Longest run explored by SpecSteer
MaxSteerTicks == 3

SteerDts == {0, 16667, 600000}

SteerKeys == {{}, {"a"}, {"d"}, {"w", "d"}, {"a", "d"}}

InitSteer == \E smooth \in BOOLEAN, safe \in BOOLEAN : Created(smooth, safe)

TickSteer == ticks < MaxSteerTicks /\ \E dt \in SteerDts, keys \in SteerKeys : update(dt, keys)

SpecSteer == InitSteer /\ [][TickSteer]_vars

---------------------------------------------------------------------------
(* SpecRest: a standing car whose only input is the left key, at frame     *)
(* times of 50 ms and 100 ms                                               *)

\* Longest run explored by SpecRest
MaxRestTicks == 6

RestDts == {50000, 100000}

RestKeys == {{}, {"a"}}

TickRest == ticks < MaxRestTicks /\ \E dt \in RestDts, keys \in RestKeys : update(dt, keys)

SpecRest == Init /\ [][TickRest]_vars

---------------------------------------------------------------------------
(* SpecTorque: one torque lookup at an engine speed drawn from the curve's *)
(* breakpoints, their neighbours and a grid over and beyond the curve      *)

\* Highest engine speed queried
MaxRpm == 9000

Breakpoints == {torque_curve[k][1] : k \in 1 .. Len(torque_curve)}

RpmInputs ==
    {r \in 0 .. MaxRpm : r % 50 = 0}
        \cup Breakpoints
        \cup {r - 1 : r \in Breakpoints} \cup {r + 1 : r \in Breakpoints}

InitTorque == \E r \in RpmInputs : Built(TRUE, TRUE, r)

\* self.engine_torque = self.get_engine_torque(self.rpm)
Lookup ==
    /\ ticks = 0
    /\ engine_torque' = get_engine_torque(rpm)
    /\ ticks' = 1
    /\ UNCHANGED << inputs, heading, position, velocity, velocity_c, accel, accel_c,
                    abs_vel, yaw_rate, steer, steer_angle, smooth_steer, safe_steer,
                    current_gear_index, rpm, last_tire_index, tire_tracks,
                    axle_weight_front, axle_weight_rear, speed_integrated, written,
                    last_dt >>

SpecTorque == InitTorque /\ [][Lookup]_vars

---------------------------------------------------------------------------
(* SpecTracks: throttle and left steering with smoothing on or off, which  *)
(* records rear and front tire tracks                                      *)

\* Longest run explored by SpecTracks
MaxTrackTicks == 4

TrackDts == {16667, 100000}

TrackKeys == {{}, {"w"}, {"a"}, {"w", "a"}}

InitTracks == \E smooth \in BOOLEAN : Created(smooth, TRUE)

TickTracks == ticks < MaxTrackTicks /\ \E dt \in TrackDts, keys \in TrackKeys : update(dt, keys)

SpecTracks == InitTracks /\ [][TickTracks]_vars

---------------------------------------------------------------------------
(* SpecLaunch: full throttle from rest for one second of 1/60 s ticks; the *)
(* first tick may also select second or third gear                         *)

\* Ticks of the launch
MaxLaunchTicks == 60

LaunchKeys == IF ticks = 0 THEN {{"w"}, {"w", "2"}, {"w", "3"}} ELSE {{"w"}}

TickLaunch == ticks < MaxLaunchTicks /\ \E keys \in LaunchKeys : update(16667, keys)

SpecLaunch == Init /\ [][TickLaunch]_vars

---------------------------------------------------------------------------
(* Claims checked under Spec                                               *)

Zero == [x |-> 0, y |-> 0]

\* C3 as stated: in every tick that starts with speed below 0.5 and has no throttle
\* input, the velocity, the speed and the yaw rate are zero after the tick.
C3_StopsFromPreTickSpeed ==
    [][(abs_vel < 500 /\ inputs'.throttle = 0)
         => (velocity' = Zero /\ abs_vel' = 0 /\ yaw_rate' = 0)]_vars

\* C3 amended: after every tick without throttle input in which the speed recomputed
\* from the integrated velocity (line 429) is below 0.5, the velocity, the speed and
\* the yaw rate are zero.
C3_StopsFromIntegratedSpeed ==
    (ticks > 0 /\ speed_integrated < 500 /\ inputs.throttle = 0)
        => (velocity = Zero /\ abs_vel = 0 /\ yaw_rate = 0)

\* A tick without throttle integrated a non-zero speed below 0.5 and was stopped
C3_Witness ==
    /\ ticks > 0
    /\ inputs.throttle = 0
    /\ speed_integrated > 0
    /\ speed_integrated < 500
    /\ velocity = Zero

\* C7: the axle loads of a tick move in opposite directions with the longitudinal
\* acceleration the tick starts with: forward acceleration lowers the front load
\* below its static value and raises the rear load above it, braking the reverse.
C7_LoadsMoveOppositely ==
    [][/\ accel_c.x > 0 =>
            /\ axle_weight_front' < StaticLoad(axle_weight_ratio_front)
            /\ axle_weight_rear' > StaticLoad(axle_weight_ratio_rear)
       /\ accel_c.x < 0 =>
            /\ axle_weight_front' > StaticLoad(axle_weight_ratio_front)
            /\ axle_weight_rear' < StaticLoad(axle_weight_ratio_rear)]_vars

\* C9: the engine speed is at least the idle speed, which is the lowest breakpoint
\* of the torque curve, at creation and after every tick; so update_physics, which
\* looks up the torque at the engine speed the tick starts with, never asks below it.
C9_EngineSpeedAtLeastIdle ==
    /\ min_rpm = torque_curve[1][1]
    /\ rpm >= min_rpm
    /\ rpm >= torque_curve[1][1]

\* A tick that started with the car rolling too slowly for idle left the engine at idle
C9_Witness ==
    /\ ticks > 0
    /\ velocity_c.x # 0
    /\ EngineSpeedNoFloor(velocity_c.x, gear_ratios[current_gear_index + 1]) < min_rpm
    /\ rpm = min_rpm

---------------------------------------------------------------------------
(* Claims checked under SpecSteer                                          *)

\* C1: after every update the stored steer value lies in [-1, 1] and the steer angle
\* is max_steer times it (to the last fixed-point digit), whatever the keys, the
\* frame times, the speed and the two toggles.
C1_SteerBounded ==
    /\ steer >= -1000000
    /\ steer <= 1000000
    /\ Abs(max_steer * steer - 1000 * steer_angle) < 1000

\* An update with smoothing on drove the steer value to the end of its range
C1_Witness == ticks > 0 /\ smooth_steer /\ Abs(steer) = 1000000 /\ steer_angle # 0

SteerAxis(inp) == inp.right - inp.left

\* max(|steer| - dt, 0) for the steer value s a tick starts with
Decayed(s, dt) == Max(Abs(s) - dt, 0)

\* The steer value t has the sign of s or is zero
SameSignOrZero(s, t) ==
    /\ s > 0 => t >= 0
    /\ s < 0 => t <= 0
    /\ s = 0 => t = 0

\* C4 as stated: with smoothing on, a tick whose steer axis is zero leaves a steer
\* value of magnitude exactly max(|steer before| - dt, 0) with the same sign or zero,
\* at every speed and with safe steer on.
C4_DecayExactAtEverySpeed ==
    [][(smooth_steer /\ SteerAxis(inputs') = 0)
         => /\ Abs(steer') = Decayed(steer, last_dt')
            /\ SameSignOrZero(steer, steer')]_vars

\* C4 amended: with smoothing on, a tick whose steer axis is zero leaves a steer value
\* with the same sign or zero and a magnitude of at most max(|steer before| - dt, 0),
\* and of exactly that when safe steer is off or the speed the tick starts with is 0.
C4_DecayExactWithoutScaling ==
    [][(smooth_steer /\ SteerAxis(inputs') = 0)
         => /\ SameSignOrZero(steer, steer')
            /\ Abs(steer') <= Decayed(steer, last_dt')
            /\ (~ safe_steer \/ abs_vel = 0) => Abs(steer') = Decayed(steer, last_dt')]_vars

\* A tick with a zero steer axis and a positive frame time, smoothing on and safe
\* steer off, left a non-zero steer value: the decay acted and did not reach zero
C4_Witness ==
    /\ ticks > 1
    /\ smooth_steer
    /\ ~ safe_steer
    /\ SteerAxis(inputs) = 0
    /\ last_dt > 0
    /\ steer # 0

---------------------------------------------------------------------------
(* Claim checked under SpecRest                                            *)

AllInputsZero(inp) ==
    inp = [left |-> 0, right |-> 0, throttle |-> 0, brake |-> 0, ebrake |-> 0]

\* C2: a tick with all five inputs zero that starts with zero velocity and zero yaw
\* rate ends with zero velocity and zero yaw rate and leaves the heading and the
\* position as they were; so a car at rest stays at rest over any number of such ticks.
C2_RestIsKept ==
    [][(velocity = Zero /\ yaw_rate = 0 /\ AllInputsZero(inputs'))
         => /\ velocity' = Zero
            /\ yaw_rate' = 0
            /\ heading' = heading
            /\ position' = position]_vars

---------------------------------------------------------------------------
(* Claims checked under SpecTorque                                         *)

TopBreakpoint == torque_curve[Len(torque_curve)]

\* C5 as stated: the torque is 0 at every engine speed at or above the highest
\* breakpoint, that breakpoint included.
C5_ZeroAtAndAboveTop ==
    (ticks = 1 /\ rpm >= TopBreakpoint[1]) => engine_torque = 0

\* C5 amended: the torque is 0 at every engine speed strictly above the highest
\* breakpoint; at the highest breakpoint itself it is that breakpoint's torque (300).
C5_ZeroAboveTop ==
    /\ (ticks = 1 /\ rpm > TopBreakpoint[1]) => engine_torque = 0
    /\ (ticks = 1 /\ rpm = TopBreakpoint[1]) => engine_torque = TopBreakpoint[2] * 1000

\* The torque was looked up one rpm above the highest breakpoint
C5_Witness == ticks = 1 /\ rpm = TopBreakpoint[1] + 1 /\ engine_torque = 0

\* C6: at every breakpoint (r, t) the torque is exactly t, and strictly between two
\* adjacent breakpoints (r1, t1), (r2, t2) it is t1 + (t2 - t1) * (rpm - r1) / (r2 - r1).
C6_ExactAtBreakpoints ==
    ticks = 1 =>
        /\ \A k \in 1 .. Len(torque_curve) :
               rpm = torque_curve[k][1] => engine_torque = torque_curve[k][2] * 1000
        /\ \A k \in 1 .. Len(torque_curve) - 1 :
               (torque_curve[k][1] < rpm /\ rpm < torque_curve[k + 1][1]) =>
                   engine_torque =
                       torque_curve[k][2] * 1000
                       + Div((torque_curve[k + 1][2] - torque_curve[k][2]) * 1000
                                 * (rpm - torque_curve[k][1]),
                             torque_curve[k + 1][1] - torque_curve[k][1])

\* The torque was looked up at an inner breakpoint, which two segments share
C6_Witness == ticks = 1 /\ rpm = torque_curve[3][1] /\ engine_torque = torque_curve[3][2] * 1000

---------------------------------------------------------------------------
(* Claim checked under SpecTracks                                          *)

\* The last point stored in slot i among the first n points written, or None
RECURSIVE LastStored(_, _)
LastStored(i, n) ==
    IF n = 0 THEN None
    ELSE IF (n - 1) % max_tire_length = i THEN written[n]
    ELSE LastStored(i, n - 1)

\* C8: the ring keeps max_tire_length slots and its cursor stays inside it; points
\* are stored in pairs at the cursor and the slot after it, modulo the capacity, so
\* the cursor is the number of points written modulo the capacity and every slot holds
\* the last point written to it: the most recent capacity-many points, oldest
\* overwritten first.
C8_RingKeepsMostRecent ==
    /\ DOMAIN tire_tracks = 0 .. max_tire_length - 1
    /\ last_tire_index \in 0 .. max_tire_length - 1
    /\ Len(written) % 2 = 0
    /\ last_tire_index = Len(written) % max_tire_length
    /\ \A i \in 0 .. max_tire_length - 1 : tire_tracks[i] = LastStored(i, Len(written))

\* More points have been written than the ring holds, a front-axle pair (ahead of
\* the car's position) among them, and the slot of the first point now holds a later one
C8_Witness ==
    /\ Len(written) > max_tire_length
    /\ tire_tracks[0] # written[1]
    /\ \E k \in 1 .. Len(written) : written[k][1] > position.x
    /\ \E k \in 1 .. Len(written) : written[k][1] < position.x

---------------------------------------------------------------------------
(* Claim checked under SpecLaunch                                          *)

\* C10: in first gear, after every tick of the launch the heading, the lateral
\* velocity and the yaw rate are 0 and the longitudinal speed is positive; every tick
\* raises the longitudinal speed and does not lower the engine speed, which starts
\* at idle.
C10_LaunchAccelerates ==
    /\ [](current_gear_index = 0 =>
            /\ heading = 0
            /\ velocity.y = 0
            /\ velocity_c.y = 0
            /\ yaw_rate = 0
            /\ ticks = 0 => rpm = min_rpm
            /\ ticks > 0 => velocity.x > 0)
    /\ [][current_gear_index' = 0 => (velocity'.x > velocity.x /\ rpm' >= rpm)]_vars

\* The launch in first gear has run its 60 ticks and the engine is above idle
C10_Witness ==
    /\ current_gear_index = 0
    /\ ticks = 60
    /\ velocity.x > 0
    /\ rpm > min_rpm

---------------------------------------------------------------------------
(* Braking at rest, checked under Spec                                     *)

\* Brake and/or e-brake held, throttle and both steer keys released
BrakingOnly(inp) ==
    /\ inp.throttle = 0
    /\ inp.left = 0
    /\ inp.right = 0
    /\ inp.brake + inp.ebrake > 0

\* C11: a tick that starts with zero velocity and zero yaw rate, in which the brake
\* and/or the e-brake is held and the throttle and both steer inputs are zero, ends
\* with zero velocity and zero speed and leaves the position as it was, for every
\* frame time; so braking never sets a car at rest in motion.
C11_BrakingKeepsRest ==
    [][(velocity = Zero /\ yaw_rate = 0 /\ BrakingOnly(inputs'))
         => /\ velocity' = Zero
            /\ abs_vel' = 0
            /\ position' = position]_vars

====
